---- MODULE Spec2Model ----
(***************************************************************************)
(* Model of the payment dispatch pipeline of rinha-backend-golang:         *)
(*   api/gateway/gateway.go         ingress, bounded queue, forwarders     *)
(*   api/gateway/payment_logger.go  compliance logger (batch insert)       *)
(*   api/worker/worker.go           processing hop, router, health loop,   *)
(*                                  summary store kept in Redis            *)
(* The gateway and the worker are two processes; Redis is the one store    *)
(* the worker's goroutines share, PostgreSQL the logger's table.           *)
(***************************************************************************)
EXTENDS Integers, Sequences, FiniteSets, Bags, TLC

(***************************************************************************)
(* Bounds of the model.  QueueSize, NumWorkers, LogChanSize and batchSize  *)
(* are the program's constants (10000, 100, 4096, 256) scaled down.        *)
(***************************************************************************)
NumIds == 2
MaxAmount == 2
QueueSize == 2
NumWorkers == 2
MaxTasks == 2
MaxPosts == 3
MaxRequests == 2
MaxFaults == 1
LogChanSize == 1
batchSize == 2

VARIABLES
  paymentQueue,  \* APIGateway.paymentQueue: the buffered channel, oldest first
  forwarders,    \* the paymentForwarder goroutines: position and item in hand
  lastStatus,    \* HTTP status of the latest POST /payments response (0: none)
  pl,            \* PaymentLogger: enabled (pl # nil), channel ch, pending batch,
                 \* ctx cancelled, loop running, loop inside flush; callers: the handlers that
                 \* have sent to the queue and not yet called LogPayment
  pgRows,        \* rows of the PostgreSQL table payments, in insertion order
  disconnected,  \* the submissions whose client has closed its connection
                 \* after the 200, with where the item was at that moment
  tasks,         \* the processPayment goroutines of the worker
  redis,         \* the Redis keyspace: key -> value
  healthLoop,    \* startHealthChecks: the processor probed next
  reply,         \* HTTP status of the latest POST /process-payment response
  faults,        \* number of Redis commands that have failed so far
  summary,       \* handlePaymentsSummary: reads done, values read, and the
                 \* totals the store went through meanwhile (a history)
  hist           \* history (ghost) record used to state the properties

gwVars == <<paymentQueue, forwarders, lastStatus, pl, pgRows, disconnected>>
wkVars == <<tasks, redis, healthLoop, reply, faults, summary>>
vars == <<paymentQueue, forwarders, lastStatus, pl, pgRows, disconnected,
          tasks, redis, healthLoop, reply, faults, summary, hist>>

(***************************************************************************)
(* Data                                                                    *)
(***************************************************************************)
Procs == {"default", "fallback"}

\* correlationIds a client sends; the second one is also a key the worker uses
IdPool == <<"c1", "health:default", "c2", "c3">>
CorrIds == {IdPool[i] : i \in 1..NumIds}
Amounts == 2..MaxAmount

\* models.PaymentRequest as the pipeline carries it (Timestamp is never read)
PaymentRequest(id, a) == [correlationId |-> id, amount |-> a]
NoReq == [correlationId |-> "<none>", amount |-> 0]

\* HTTP request bodies: not JSON at all, or a JSON object with or without
\* each of the two fields
GarbageBody == [json |-> FALSE, hasId |-> FALSE, id |-> "", hasAmount |-> FALSE, amount |-> 0]
JsonBody(hasId, id, hasAmount, a) ==
  [json |-> TRUE, hasId |-> hasId, id |-> IF hasId THEN id ELSE "",
   hasAmount |-> hasAmount, amount |-> IF hasAmount THEN a ELSE 0]
ValidBodies == {JsonBody(TRUE, c, TRUE, a) : c \in CorrIds, a \in Amounts}
PartialBodies == {JsonBody(FALSE, "", TRUE, MaxAmount), JsonBody(TRUE, IdPool[1], FALSE, 0)}
Bodies == {GarbageBody} \cup PartialBodies \cup ValidBodies
Methods == {"POST", "GET"}

\* json.NewDecoder(r.Body).Decode(&req): an error for a body that is not
\* JSON; a field the body lacks keeps Go's zero value ("" or 0)
Decode(body) ==
  [err |-> ~body.json,
   req |-> PaymentRequest(IF body.json /\ body.hasId THEN body.id ELSE "",
                          IF body.json /\ body.hasAmount THEN body.amount ELSE 0)]

\* json.Marshal(req): both fields are always written
Marshal(req) == JsonBody(TRUE, req.correlationId, TRUE, req.amount)

(***************************************************************************)
(* Gateway process: ingress, bounded queue, forwarders, compliance logger  *)
(***************************************************************************)
Forwarders == 1..NumWorkers

\* a faulty variant of TrySend: a full buffer makes room by dropping its oldest item
TrySendEvicting(ch, cap, x) ==
  IF Len(ch) < cap THEN [sent |-> TRUE, ch |-> Append(ch, x)]
                   ELSE [sent |-> TRUE, ch |-> Append(Tail(ch), x)]

\* select { case ch <- x: ... default: ... } on a buffered channel of capacity
\* cap: the send happens only when the buffer has room, and never waits
TrySend(ch, cap, x) ==
  IF Len(ch) < cap THEN [sent |-> TRUE, ch |-> Append(ch, x)]
                   ELSE [sent |-> FALSE, ch |-> ch]

\* a faulty variant of LogPayment: the item is put on the channel even when
\* the channel is full
LogPaymentUnbounded(logger, req) ==
  IF ~logger.enabled THEN logger
  ELSE [logger EXCEPT !.ch = Append(logger.ch, req)]

\* PaymentLogger.LogPayment: nothing when the logger is disabled, else a
\* non-blocking send that drops the item when the channel is full
LogPayment(logger, req) ==
  IF ~logger.enabled THEN logger
  ELSE [logger EXCEPT !.ch = TrySend(logger.ch, LogChanSize, req).ch]

\* the handler between its send to the queue (case api.paymentQueue <- req)
\* and its call of LogPayment: with a logger it is one more caller about to
\* send req to the logger's channel, without one (pl == nil) the call returns
\* at once
EnterLogPayment(logger, req) ==
  IF ~logger.enabled THEN logger
  ELSE [logger EXCEPT !.callers = @ (+) SetToBag({req})]

\* a faulty variant of Admit: requests are turned away while no processor is
\* flagged healthy
AdmitWhenProcessorHealthy(queue, logger, method, body) ==
  IF method # "POST" THEN [status |-> 405, queue |-> queue, logger |-> logger]
  ELSE IF Decode(body).err THEN [status |-> 400, queue |-> queue, logger |-> logger]
  ELSE IF /\ \E k \in {"health:default", "health:fallback"} : redis[k].n = 1
          /\ TrySend(queue, QueueSize, Decode(body).req).sent
       THEN [status |-> 200,
             queue |-> TrySend(queue, QueueSize, Decode(body).req).ch,
             logger |-> EnterLogPayment(logger, Decode(body).req)]
       ELSE [status |-> 503, queue |-> queue, logger |-> logger]

\* a faulty variant of Admit: a request the logger cannot take is turned away
AdmitOnlyWhenLogged(queue, logger, method, body) ==
  IF method # "POST" THEN [status |-> 405, queue |-> queue, logger |-> logger]
  ELSE IF Decode(body).err THEN [status |-> 400, queue |-> queue, logger |-> logger]
  ELSE IF /\ logger.enabled => Len(logger.ch) < LogChanSize
          /\ TrySend(queue, QueueSize, Decode(body).req).sent
       THEN [status |-> 200,
             queue |-> TrySend(queue, QueueSize, Decode(body).req).ch,
             logger |-> EnterLogPayment(logger, Decode(body).req)]
       ELSE [status |-> 503, queue |-> queue, logger |-> logger]

\* APIGateway.handlePayments up to its send to the queue, as a function of the
\* request and the state it reads: the status it answers or is going to
\* answer, the queue and the logger afterwards
Admit(queue, logger, method, body) ==
  IF method # "POST" THEN [status |-> 405, queue |-> queue, logger |-> logger]
  ELSE IF Decode(body).err THEN [status |-> 400, queue |-> queue, logger |-> logger]
  ELSE IF TrySend(queue, QueueSize, Decode(body).req).sent
       THEN [status |-> 200,
             queue |-> TrySend(queue, QueueSize, Decode(body).req).ch,
             logger |-> EnterLogPayment(logger, Decode(body).req)]
       ELSE [status |-> 503, queue |-> queue, logger |-> logger]

\* method check, decode and the select on the queue; a rejection is answered
\* in the same step, and so is an admission when there is no logger; with a
\* logger the admitted request is answered after LogPayment
handlePayments(method, body, cap) ==
  /\ hist.posts < cap
  /\ paymentQueue' = Admit(paymentQueue, pl, method, body).queue
  /\ pl' = Admit(paymentQueue, pl, method, body).logger
  /\ lastStatus' = IF pl.enabled /\ Admit(paymentQueue, pl, method, body).status = 200
                   THEN lastStatus
                   ELSE Admit(paymentQueue, pl, method, body).status
  /\ hist' = [hist EXCEPT
       !.posts = @ + 1,
       !.accepted[Decode(body).req.correlationId] =
           IF Admit(paymentQueue, pl, method, body).status = 200 THEN @ + 1 ELSE @]
  /\ UNCHANGED <<forwarders, pgRows, disconnected>>
  /\ UNCHANGED wkVars

\* the rest of handlePayments for an admitted request: api.logger.LogPayment(req),
\* then w.WriteHeader(http.StatusOK)
handlePaymentsLog(req) ==
  /\ pl.enabled
  /\ BagIn(req, pl.callers)
  /\ pl' = [LogPayment(pl, req) EXCEPT !.callers = pl.callers (-) SetToBag({req})]
  /\ lastStatus' = 200
  /\ UNCHANGED <<paymentQueue, forwarders, pgRows, disconnected, hist>>
  /\ UNCHANGED wkVars

\* a faulty variant of Receive: the forwarder takes the newest item
ReceiveNewest(w) ==
  /\ forwarders[w].pc = "recv"
  /\ Len(paymentQueue) > 0
  /\ forwarders' = [forwarders EXCEPT ![w] =
       [pc |-> "forward", req |-> paymentQueue[Len(paymentQueue)]]]
  /\ paymentQueue' = SubSeq(paymentQueue, 1, Len(paymentQueue) - 1)
  /\ UNCHANGED <<lastStatus, pl, pgRows, disconnected, hist>>
  /\ UNCHANGED wkVars

\* a faulty variant of Receive: the forwarder reads the oldest item and leaves
\* it in the queue
ReceivePeek(w) ==
  /\ forwarders[w].pc = "recv"
  /\ Len(paymentQueue) > 0
  /\ forwarders' = [forwarders EXCEPT ![w] = [pc |-> "forward", req |-> Head(paymentQueue)]]
  /\ paymentQueue' = paymentQueue
  /\ UNCHANGED <<lastStatus, pl, pgRows, disconnected, hist>>
  /\ UNCHANGED wkVars

\* paymentForwarder: `for req := range api.paymentQueue`: a forwarder that is
\* waiting takes the oldest item; it waits while the queue is empty
Receive(w) ==
  /\ forwarders[w].pc = "recv"
  /\ Len(paymentQueue) > 0
  /\ forwarders' = [forwarders EXCEPT ![w] = [pc |-> "forward", req |-> Head(paymentQueue)]]
  /\ paymentQueue' = Tail(paymentQueue)
  /\ UNCHANGED <<lastStatus, pl, pgRows, disconnected, hist>>
  /\ UNCHANGED wkVars

\* a faulty variant of forwardPaymentFails: the item goes back to the queue
\* when there is room for it
forwardPaymentRequeues(w) ==
  /\ forwarders[w].pc = "forward"
  /\ forwarders' = [forwarders EXCEPT ![w] = [pc |-> "recv", req |-> NoReq]]
  /\ paymentQueue' = TrySend(paymentQueue, QueueSize, forwarders[w].req).ch
  /\ UNCHANGED <<lastStatus, pl, pgRows, disconnected, hist>>
  /\ UNCHANGED wkVars

\* forwardPayment ending without the worker having taken the request (the
\* connection failed or the 1 s deadline passed): the item is gone
forwardPaymentFails(w) ==
  /\ forwarders[w].pc = "forward"
  /\ forwarders' = [forwarders EXCEPT ![w] = [pc |-> "recv", req |-> NoReq]]
  /\ UNCHANGED <<paymentQueue, lastStatus, pl, pgRows, disconnected, hist>>
  /\ UNCHANGED wkVars

\* INSERT INTO payments ... VALUES batch ON CONFLICT DO NOTHING, one statement:
\* a row whose correlation_id is already in the table, or earlier in the same
\* statement, is skipped (correlation_id is the PRIMARY KEY)
RECURSIVE InsertOnConflictDoNothing(_, _)
InsertOnConflictDoNothing(rows, batch) ==
  IF batch = <<>> THEN rows
  ELSE InsertOnConflictDoNothing(
         IF \E i \in 1..Len(rows) : rows[i].correlation_id = Head(batch).correlationId
         THEN rows
         ELSE Append(rows, [correlation_id |-> Head(batch).correlationId,
                            amount |-> Head(batch).amount,
                            processor |-> ""]),
         Tail(batch))

\* a faulty variant of flush: the rows are inserted with no conflict key to stop them
flushWithoutConflictKey(rows, batch, execFails) ==
  IF Len(batch) = 0 \/ execFails THEN rows
  ELSE rows \o [i \in 1..Len(batch) |->
                  [correlation_id |-> batch[i].correlationId,
                   amount |-> batch[i].amount, processor |-> ""]]

\* flush of PaymentLogger.loop: the table after the statement (unchanged when
\* the batch is empty or Exec fails); the batch is emptied in every case
flush(rows, batch, execFails) ==
  IF Len(batch) = 0 \/ execFails THEN rows
  ELSE InsertOnConflictDoNothing(rows, batch)

\* hist.offered after a batch has gone to the table in a statement that did
\* not fail
Offered(batch, flushes, execFails) ==
  IF flushes /\ ~execFails
  THEN [hist EXCEPT !.offered =
          [c \in DOMAIN @ |->
             @[c] + Cardinality({i \in 1..Len(batch) : batch[i].correlationId = c})]]
  ELSE hist

\* loop, case req := <-pl.ch: append to the batch; when the batch is full the
\* loop goes into flush
loopReceive ==
  /\ pl.enabled /\ pl.looping /\ pl.flushing = "no"
  /\ Len(pl.ch) > 0
  /\ LET batch == Append(pl.batch, Head(pl.ch))
     IN pl' = [pl EXCEPT !.ch = Tail(@), !.batch = batch,
                         !.flushing = IF Len(batch) >= batchSize THEN "loop" ELSE "no"]
  /\ UNCHANGED <<paymentQueue, forwarders, lastStatus, pgRows, disconnected, hist>>
  /\ UNCHANGED wkVars

\* loop, case <-ticker.C: flush, which returns at once on an empty batch
loopTick ==
  /\ pl.enabled /\ pl.looping /\ pl.flushing = "no"
  /\ pl' = [pl EXCEPT !.flushing = IF Len(pl.batch) = 0 THEN "no" ELSE "loop"]
  /\ UNCHANGED <<paymentQueue, forwarders, lastStatus, pgRows, disconnected, hist>>
  /\ UNCHANGED wkVars

\* a faulty variant of flushExec: the batch is kept when its insert failed
flushExecKeepsFailedBatch(execFails) ==
  /\ pl.enabled /\ pl.looping /\ pl.flushing # "no"
  /\ pgRows' = flush(pgRows, pl.batch, execFails)
  /\ pl' = [pl EXCEPT !.batch = IF execFails THEN @ ELSE <<>>,
                      !.flushing = "no",
                      !.looping = (pl.flushing = "loop")]
  /\ hist' = Offered(pl.batch, TRUE, execFails)
  /\ UNCHANGED <<paymentQueue, forwarders, lastStatus, disconnected>>
  /\ UNCHANGED wkVars

\* flush on a batch that is not empty: pl.pool.Exec returns, with or without an
\* error, and the batch is reset; the loop goes back to its select, or
\* returns when the flush was the one of ctx.Done
flushExec(execFails) ==
  /\ pl.enabled /\ pl.looping /\ pl.flushing # "no"
  /\ pgRows' = flush(pgRows, pl.batch, execFails)
  /\ pl' = [pl EXCEPT !.batch = <<>>,
                      !.flushing = "no",
                      !.looping = (pl.flushing = "loop")]
  /\ hist' = Offered(pl.batch, TRUE, execFails)
  /\ UNCHANGED <<paymentQueue, forwarders, lastStatus, disconnected>>
  /\ UNCHANGED wkVars

\* Close: cancel the logger's context (and close the pool)
Close ==
  /\ pl.enabled /\ ~pl.ctxDone
  /\ pl' = [pl EXCEPT !.ctxDone = TRUE]
  /\ UNCHANGED <<paymentQueue, forwarders, lastStatus, pgRows, disconnected, hist>>
  /\ UNCHANGED wkVars

\* loop, case <-pl.ctx.Done(): flush and return; on an empty batch flush
\* returns at once.  What is still in the channel stays there
loopDone ==
  /\ pl.enabled /\ pl.looping /\ pl.ctxDone /\ pl.flushing = "no"
  /\ pl' = IF Len(pl.batch) = 0 THEN [pl EXCEPT !.looping = FALSE]
                                ELSE [pl EXCEPT !.flushing = "exit"]
  /\ UNCHANGED <<paymentQueue, forwarders, lastStatus, pgRows, disconnected, hist>>
  /\ UNCHANGED wkVars

(***************************************************************************)
(* Redis: one keyspace shared by the health flags, the summary counters    *)
(* and the processed markers (the marker's key is the correlationId as     *)
(* the client sent it).  A value is absent, a number, or a string that is  *)
(* no number ("processed").                                                *)
(***************************************************************************)
Nil == [t |-> "nil", n |-> 0]
Num(n) == [t |-> "num", n |-> n]
Processed == [t |-> "str", n |-> 0]

HealthKey(p) == IF p = "default" THEN "health:default" ELSE "health:fallback"

RequestsKey(p) == IF p = "default" THEN "summary:default:requests"
                                   ELSE "summary:fallback:requests"
AmountKey(p) == IF p = "default" THEN "summary:default:amount"
                                 ELSE "summary:fallback:amount"
SummaryKeys == {RequestsKey(p) : p \in Procs} \cup {AmountKey(p) : p \in Procs}
IdSpace == CorrIds \cup {""}

\* a correlationId is any string the client sends: one that is also the name
\* of a summary key, and every correlationId the history keeps a count for
KeyIds == {RequestsKey("default")}
HistIds == IdSpace \cup KeyIds
KeyBodies == {JsonBody(TRUE, c, TRUE, a) : c \in KeyIds \cup {IdPool[1]}, a \in Amounts}
Keys == {HealthKey(p) : p \in Procs} \cup SummaryKeys \cup IdSpace

\* go-redis writes a bool argument as 1 or 0
BoolArg(b) == Num(IF b THEN 1 ELSE 0)

\* SET key value; a failed command changes nothing
RedisSet(r, k, v, fails) == IF fails THEN r ELSE [r EXCEPT ![k] = v]

\* INCR key: absent counts as 0; not a number is an error and changes nothing
RedisIncr(r, k, fails) ==
  IF fails \/ r[k].t = "str" THEN r
  ELSE [r EXCEPT ![k] = Num((IF r[k].t = "nil" THEN 0 ELSE r[k].n) + 1)]

\* INCRBYFLOAT key amount
RedisIncrByFloat(r, k, a, fails) ==
  IF fails \/ r[k].t = "str" THEN r
  ELSE [r EXCEPT ![k] = Num((IF r[k].t = "nil" THEN 0 ELSE r[k].n) + a)]

\* DEL of the four summary keys, one command
RedisDelSummary(r, fails) ==
  IF fails THEN r ELSE [k \in Keys |-> IF k \in SummaryKeys THEN Nil ELSE r[k]]

\* Get(key).Bool(): err is "nil" for an absent key (redis.Nil), "error" for a
\* failed command or a value strconv.ParseBool rejects, else "none"
GetBool(v, fails) ==
  IF fails THEN [val |-> FALSE, err |-> "error"]
  ELSE IF v = Nil THEN [val |-> FALSE, err |-> "nil"]
  ELSE IF v = Num(1) THEN [val |-> TRUE, err |-> "none"]
  ELSE IF v = Num(0) THEN [val |-> FALSE, err |-> "none"]
  ELSE [val |-> FALSE, err |-> "error"]

\* a faulty variant of ReadHealth: a read that fails counts as unhealthy
ReadHealthErrorIsUnhealthy(v, fails) ==
  IF GetBool(v, fails).err # "none" THEN FALSE
  ELSE GetBool(v, fails).val

\* a faulty variant of ReadHealth: the absent key counts as a failed read too
ReadHealthAnyErrorIsHealthy(v, fails) ==
  IF GetBool(v, fails).err # "none" THEN TRUE
  ELSE GetBool(v, fails).val

\* processPayment's reading of a health flag: an error other than redis.Nil
\* makes the processor count as healthy
ReadHealth(v, fails) ==
  IF GetBool(v, fails).err \notin {"none", "nil"} THEN TRUE
  ELSE GetBool(v, fails).val

\* Get(key).Int64() / .Float64() with the error dropped, as the summary reads
GetNumber(v) == IF v.t = "num" THEN v.n ELSE 0

\* handlePaymentsSummary reads the four keys in this order
SummaryOrder ==
  << RequestsKey("default"), AmountKey("default"),
     RequestsKey("fallback"), AmountKey("fallback") >>

\* the totals a store holds, in that order
Totals(r) == [i \in 1..Len(SummaryOrder) |-> GetNumber(r[SummaryOrder[i]])]

\* no summary query under way and none answered
NoSummary == [pc |-> 0, resp |-> <<>>, seen |-> {}]

\* the history of a query under way, after a write that left the store as r
Observe(q, r) ==
  IF q.pc \in 1..(Len(SummaryOrder) - 1)
  THEN [q EXCEPT !.seen = @ \cup {Totals(r)}] ELSE q

\* a Redis command of the worker fails or not; failures are counted
StoreCommand(fails) ==
  /\ fails => faults < MaxFaults
  /\ faults' = IF fails THEN faults + 1 ELSE faults

(***************************************************************************)
(* Worker process: processing hop and router                               *)
(***************************************************************************)
TaskIds == 1..MaxTasks
FreeTask == [pc |-> "free", req |-> NoReq, proc |-> "none",
             isDefaultHealthy |-> FALSE, isFallbackHealthy |-> FALSE]

\* `go w.processPayment(req)`: the goroutine before its first statement
NewTask(req) == [FreeTask EXCEPT !.pc = "exists", !.req = req]

\* a faulty variant of ProcessPaymentStatus: the handler looks the payment up before it
\* answers and reports one that is already processed
ProcessPaymentStatusAfterLookup(body) ==
  IF Decode(body).err THEN 400
  ELSE IF redis[Decode(body).req.correlationId] # Nil THEN 409 ELSE 200

\* handleProcessPayment: 400 for a body that does not decode; otherwise the
\* goroutine is started and 200 is written, whatever becomes of the payment
ProcessPaymentStatus(body) == IF Decode(body).err THEN 400 ELSE 200

handleProcessPayment(body) ==
  /\ reply' = ProcessPaymentStatus(body)
  /\ IF ProcessPaymentStatus(body) = 200
     THEN \E t \in TaskIds :
            /\ tasks[t].pc = "free"
            /\ \A u \in TaskIds : u < t => tasks[u].pc # "free"
            /\ tasks' = [tasks EXCEPT ![t] = NewTask(Decode(body).req)]
     ELSE tasks' = tasks
  /\ UNCHANGED <<redis, healthLoop, faults, summary>>

\* a faulty variant of forwardPayment: the call to the worker is made under
\* the context of the client's request and cannot go through once the client
\* has gone
forwardPaymentUnderRequestContext(w) ==
  /\ forwarders[w].pc = "forward"
  /\ ~\E d \in disconnected : d.id = forwarders[w].req.correlationId
  /\ forwarders' = [forwarders EXCEPT ![w] = [pc |-> "recv", req |-> NoReq]]
  /\ handleProcessPayment(Marshal(forwarders[w].req))
  /\ hist' = [hist EXCEPT !.afterPurge = FALSE,
                !.delivered[forwarders[w].req.correlationId] = @ + 1]
  /\ UNCHANGED <<paymentQueue, lastStatus, pl, pgRows, disconnected>>

\* forwardPayment reaching the worker: the item leaves the forwarder and the
\* worker's handler runs on the marshalled request
forwardPayment(w) ==
  /\ forwarders[w].pc = "forward"
  /\ forwarders' = [forwarders EXCEPT ![w] = [pc |-> "recv", req |-> NoReq]]
  /\ handleProcessPayment(Marshal(forwarders[w].req))
  /\ hist' = [hist EXCEPT !.afterPurge = FALSE,
                !.delivered[forwarders[w].req.correlationId] = @ + 1]
  /\ UNCHANGED <<paymentQueue, lastStatus, pl, pgRows, disconnected>>

\* POST /process-payment arriving at the worker process from its caller
receiveProcessPayment(body) ==
  /\ hist.posts < MaxRequests
  /\ handleProcessPayment(body)
  /\ hist' = [hist EXCEPT !.posts = @ + 1, !.afterPurge = FALSE,
                !.accepted[Decode(body).req.correlationId] =
                    IF ProcessPaymentStatus(body) = 200 THEN @ + 1 ELSE @]
  /\ UNCHANGED gwVars

\* a faulty variant of processExists: the result of the lookup is ignored
processExistsIgnored(t, fails) ==
  /\ StoreCommand(fails)
  /\ tasks[t].pc = "exists"
  /\ tasks' = [tasks EXCEPT ![t] =
       IF fails THEN FreeTask ELSE [@ EXCEPT !.pc = "getDefault"]]
  /\ hist' = [hist EXCEPT
       !.skipped =
         IF ~fails /\ redis[tasks[t].req.correlationId] # Nil
         THEN @ \cup {tasks[t].req.correlationId} ELSE @,
       !.lookupFailed =
         IF fails THEN @ \cup {tasks[t].req.correlationId} ELSE @]
  /\ UNCHANGED <<redis, healthLoop, reply, summary>>
  /\ UNCHANGED gwVars

\* a faulty variant of processExists: a lookup that fails is taken for "not
\* processed yet"
processExistsErrorMeansNew(t, fails) ==
  /\ StoreCommand(fails)
  /\ tasks[t].pc = "exists"
  /\ tasks' = [tasks EXCEPT ![t] =
       IF ~fails /\ redis[tasks[t].req.correlationId] # Nil
       THEN FreeTask ELSE [@ EXCEPT !.pc = "getDefault"]]
  /\ hist' = [hist EXCEPT
       !.skipped =
         IF ~fails /\ redis[tasks[t].req.correlationId] # Nil
         THEN @ \cup {tasks[t].req.correlationId} ELSE @,
       !.lookupFailed =
         IF fails THEN @ \cup {tasks[t].req.correlationId} ELSE @]
  /\ UNCHANGED <<redis, healthLoop, reply, summary>>
  /\ UNCHANGED gwVars

\* processPayment, "Check if already processed": Exists(correlationId)
processExists(t, fails) ==
  /\ StoreCommand(fails)
  /\ tasks[t].pc = "exists"
  /\ tasks' = [tasks EXCEPT ![t] =
       IF fails \/ redis[tasks[t].req.correlationId] # Nil
       THEN FreeTask ELSE [@ EXCEPT !.pc = "getDefault"]]
  /\ hist' = [hist EXCEPT
       !.skipped =
         IF ~fails /\ redis[tasks[t].req.correlationId] # Nil
         THEN @ \cup {tasks[t].req.correlationId} ELSE @,
       !.lookupFailed =
         IF fails THEN @ \cup {tasks[t].req.correlationId} ELSE @]
  /\ UNCHANGED <<redis, healthLoop, reply, summary>>
  /\ UNCHANGED gwVars

\* hist.readFailed after a read of p's flag
ReadFailed(p, fails) ==
  IF fails /\ redis[HealthKey(p)] = Num(0)
  THEN [hist EXCEPT !.readFailed = @ \cup {p}] ELSE hist

\* Get("health:default").Bool()
processGetDefault(t, fails) ==
  /\ StoreCommand(fails)
  /\ tasks[t].pc = "getDefault"
  /\ tasks' = [tasks EXCEPT ![t] =
       [@ EXCEPT !.pc = "getFallback",
                 !.isDefaultHealthy = ReadHealth(redis[HealthKey("default")], fails)]]
  /\ hist' = ReadFailed("default", fails)
  /\ UNCHANGED <<redis, healthLoop, reply, summary>>
  /\ UNCHANGED gwVars

\* a faulty variant of FirstChoice: default is tried as a last resort when neither
\* flag was read as healthy
FirstChoiceDefaultAsLastResort(isDefaultHealthy, isFallbackHealthy) ==
  IF isDefaultHealthy \/ ~isFallbackHealthy THEN "default" ELSE "fallback"

\* a faulty variant of FirstChoice: fallback is preferred when both were read
\* as healthy
FirstChoiceFallbackPreferred(isDefaultHealthy, isFallbackHealthy) ==
  IF isFallbackHealthy THEN "fallback"
  ELSE IF isDefaultHealthy THEN "default" ELSE "none"

\* the processor processPayment turns to first, "none" when neither flag
\* was read as healthy
FirstChoice(isDefaultHealthy, isFallbackHealthy) ==
  IF isDefaultHealthy THEN "default"
  ELSE IF isFallbackHealthy THEN "fallback" ELSE "none"

\* Get("health:fallback").Bool(), then the choice of the first processor
processGetFallback(t, fails) ==
  /\ StoreCommand(fails)
  /\ tasks[t].pc = "getFallback"
  /\ LET fh == ReadHealth(redis[HealthKey("fallback")], fails)
         first == FirstChoice(tasks[t].isDefaultHealthy, fh)
     IN tasks' = [tasks EXCEPT ![t] =
          IF first = "none" THEN FreeTask
          ELSE [@ EXCEPT !.pc = "call", !.proc = first, !.isFallbackHealthy = fh]]
  /\ hist' = ReadFailed("fallback", fails)
  /\ UNCHANGED <<redis, healthLoop, reply, summary>>
  /\ UNCHANGED gwVars

\* what an external processor's POST /payments can come back as
CallResponses ==
  { [err |-> TRUE,  status |-> 0,   body |-> "none"],
    [err |-> FALSE, status |-> 500, body |-> "none"],
    [err |-> FALSE, status |-> 200, body |-> "undecodable"],
    [err |-> FALSE, status |-> 200, body |-> "another message"],
    [err |-> FALSE, status |-> 200, body |-> "payment processed successfully"] }
SuccessOnly == {r \in CallResponses : r.body = "payment processed successfully"}

\* a faulty variant of callProcessor: any 200 counts as success
callProcessorByStatus(r) == ~r.err /\ r.status = 200

\* callProcessor's result for a response
callProcessor(r) ==
  /\ ~r.err
  /\ r.status = 200
  /\ r.body # "undecodable"
  /\ r.body = "payment processed successfully"

\* a faulty variant of AfterFailure: after a failed call the other processor is
\* tried, default after fallback too
AfterFailureTryTheOther(proc, isFallbackHealthy) ==
  IF proc = "fallback" THEN "default"
  ELSE IF isFallbackHealthy THEN "fallback" ELSE "none"

\* a faulty variant of AfterFailure: the flag of fallback is looked up again
\* in the store after the failed call
AfterFailureRereadsFlag(proc, isFallbackHealthy) ==
  IF proc = "default" /\ redis[HealthKey("fallback")] = Num(1) THEN "fallback" ELSE "none"

\* where processPayment goes after a failed call: to fallback after default
\* when fallback was read as healthy, else it gives up
AfterFailure(proc, isFallbackHealthy) ==
  IF proc = "default" /\ isFallbackHealthy THEN "fallback" ELSE "none"

\* a faulty variant of processCall: the call has no deadline, and a processor
\* that does not answer holds the goroutine for good
processCallWithoutDeadline(t, r) ==
  /\ tasks[t].pc = "call"
  /\ tasks' = [tasks EXCEPT ![t] =
       IF callProcessor(r) THEN [@ EXCEPT !.pc = "incr"]
       ELSE IF r.err THEN [@ EXCEPT !.pc = "blocked"]
       ELSE IF AfterFailure(tasks[t].proc, tasks[t].isFallbackHealthy) = "none" THEN FreeTask
       ELSE [@ EXCEPT !.proc = AfterFailure(tasks[t].proc, tasks[t].isFallbackHealthy)]]
  /\ hist' = [hist EXCEPT
       !.paid[tasks[t].req.correlationId][tasks[t].proc] =
           IF callProcessor(r) THEN @ + 1 ELSE @]
  /\ UNCHANGED <<redis, healthLoop, reply, faults, summary>>
  /\ UNCHANGED gwVars

\* a faulty variant of processCall: a call to fallback that fails is settled
\* all the same
processCallSettlesRegardless(t, r) ==
  /\ tasks[t].pc = "call"
  /\ tasks' = [tasks EXCEPT ![t] =
       IF callProcessor(r) \/ tasks[t].proc = "fallback" THEN [@ EXCEPT !.pc = "incr"]
       ELSE IF AfterFailure(tasks[t].proc, tasks[t].isFallbackHealthy) = "none" THEN FreeTask
       ELSE [@ EXCEPT !.proc = AfterFailure(tasks[t].proc, tasks[t].isFallbackHealthy)]]
  /\ hist' = [hist EXCEPT
       !.paid[tasks[t].req.correlationId][tasks[t].proc] =
           IF callProcessor(r) THEN @ + 1 ELSE @]
  /\ UNCHANGED <<redis, healthLoop, reply, faults, summary>>
  /\ UNCHANGED gwVars

\* w.callProcessor(url, req) for the processor in turn
processCall(t, r) ==
  /\ tasks[t].pc = "call"
  /\ tasks' = [tasks EXCEPT ![t] =
       IF callProcessor(r) THEN [@ EXCEPT !.pc = "incr"]
       ELSE IF AfterFailure(tasks[t].proc, tasks[t].isFallbackHealthy) = "none" THEN FreeTask
       ELSE [@ EXCEPT !.proc = AfterFailure(tasks[t].proc, tasks[t].isFallbackHealthy)]]
  /\ hist' = [hist EXCEPT
       !.paid[tasks[t].req.correlationId][tasks[t].proc] =
           IF callProcessor(r) THEN @ + 1 ELSE @]
  /\ UNCHANGED <<redis, healthLoop, reply, faults, summary>>
  /\ UNCHANGED gwVars

\* a faulty variant of processIncr: a failed increment ends the processing
processIncrOrGiveUp(t, fails) ==
  /\ StoreCommand(fails)
  /\ tasks[t].pc = "incr"
  /\ redis' = RedisIncr(redis, RequestsKey(tasks[t].proc), fails)
  /\ tasks' = [tasks EXCEPT ![t] = IF fails THEN FreeTask ELSE [@ EXCEPT !.pc = "incrBy"]]
  /\ hist' = [hist EXCEPT !.counted[tasks[t].req.correlationId][tasks[t].proc] =
                IF redis' # redis THEN @ + 1 ELSE @]
  /\ summary' = Observe(summary, redis')
  /\ UNCHANGED <<healthLoop, reply>>
  /\ UNCHANGED gwVars

\* Incr("summary:<proc>:requests")
processIncr(t, fails) ==
  /\ StoreCommand(fails)
  /\ tasks[t].pc = "incr"
  /\ redis' = RedisIncr(redis, RequestsKey(tasks[t].proc), fails)
  /\ tasks' = [tasks EXCEPT ![t].pc = "incrBy"]
  /\ hist' = [hist EXCEPT !.counted[tasks[t].req.correlationId][tasks[t].proc] =
                IF redis' # redis THEN @ + 1 ELSE @]
  /\ summary' = Observe(summary, redis')
  /\ UNCHANGED <<healthLoop, reply>>
  /\ UNCHANGED gwVars

\* IncrByFloat("summary:<proc>:amount", req.Amount)
processIncrBy(t, fails) ==
  /\ StoreCommand(fails)
  /\ tasks[t].pc = "incrBy"
  /\ redis' = RedisIncrByFloat(redis, AmountKey(tasks[t].proc), tasks[t].req.amount, fails)
  /\ tasks' = [tasks EXCEPT ![t].pc = "set"]
  /\ summary' = Observe(summary, redis')
  /\ UNCHANGED <<healthLoop, reply, hist>>
  /\ UNCHANGED gwVars

\* Set(correlationId, "processed", 0), then return
processSet(t, fails) ==
  /\ StoreCommand(fails)
  /\ tasks[t].pc = "set"
  /\ redis' = RedisSet(redis, tasks[t].req.correlationId, Processed, fails)
  /\ tasks' = [tasks EXCEPT ![t] = FreeTask]
  /\ hist' = [hist EXCEPT !.settledBy[tasks[t].req.correlationId] =
                IF fails THEN @
                ELSE [proc |-> tasks[t].proc, amount |-> tasks[t].req.amount]]
  /\ UNCHANGED <<healthLoop, reply, summary>>
  /\ UNCHANGED gwVars

\* handlePurgePayments: Del of the four summary keys; the markers stay
handlePurgePayments(fails) ==
  /\ StoreCommand(fails)
  /\ redis' = RedisDelSummary(redis, fails)
  /\ hist' = [hist EXCEPT !.purged = TRUE,
                !.afterPurge = \A t \in TaskIds : tasks[t].pc = "free"]
  /\ summary' = Observe(summary, redis')
  /\ UNCHANGED <<tasks, healthLoop, reply>>
  /\ UNCHANGED gwVars

\* handlePaymentsSummary, one Get(key) at a time with its error dropped; the
\* response is complete after the fourth
summaryGet(fails) ==
  /\ StoreCommand(fails)
  /\ LET n == IF summary.pc = Len(SummaryOrder) THEN 0 ELSE summary.pc
         v == IF fails THEN 0 ELSE GetNumber(redis[SummaryOrder[n + 1]])
     IN summary' = [pc |-> n + 1,
                    resp |-> IF n = 0 THEN <<v>> ELSE Append(summary.resp, v),
                    seen |-> IF n = 0 THEN {Totals(redis)} ELSE summary.seen]
  /\ UNCHANGED <<tasks, redis, healthLoop, reply, hist>>
  /\ UNCHANGED gwVars

(***************************************************************************)
(* Worker process: health loop                                             *)
(***************************************************************************)
\* what GET /payments/service-health can come back as
ProbeResponses ==
  { [err |-> "timeout", status |-> 0,   body |-> "none"],
    [err |-> "refused", status |-> 0,   body |-> "none"],
    [err |-> "none",    status |-> 500, body |-> "none"],
    [err |-> "none",    status |-> 200, body |-> "undecodable"],
    [err |-> "none",    status |-> 200, body |-> "failing"],
    [err |-> "none",    status |-> 200, body |-> "not failing"] }
HealthyOnly == {r \in ProbeResponses : r.body = "not failing"}

\* the flag checkProcessorHealth passes to Set for a probe response
ProbedHealthy(r) ==
  IF r.err # "none" THEN FALSE
  ELSE IF r.status = 200
       THEN IF r.body # "undecodable" THEN ~(r.body = "failing") ELSE FALSE
       ELSE FALSE

\* the Set runs under the probe's own 3 s context; after a probe that ran
\* into the deadline that context is over and go-redis returns its error
\* without sending the command
ContextDone(r) == r.err = "timeout"

\* checkProcessorHealth(name, url): the probe and the Set of its result
checkProcessorHealth(p, r, fails) ==
  /\ StoreCommand(fails)
  /\ healthLoop = p
  /\ redis' = RedisSet(redis, HealthKey(p), BoolArg(ProbedHealthy(r)),
                       fails \/ ContextDone(r))
  /\ healthLoop' = IF p = "default" THEN "fallback" ELSE "default"
  /\ UNCHANGED <<tasks, reply, summary, hist>>
  /\ UNCHANGED gwVars

(***************************************************************************)
(* The history record hist (it is written, never read, by the actions):    *)
(*   posts       requests received so far (POST /payments, or POST         *)
(*               /process-payment when the worker is taken alone)          *)
(*   accepted    per correlationId, how many of them were answered 200     *)
(*   paid        per correlationId and processor, the calls that succeeded *)
(*   counted     per correlationId and processor, the increments of the    *)
(*               processor's request counter made for it                   *)
(*   settledBy   per correlationId, the processor and amount of the        *)
(*               settlement that wrote its processed marker                *)
(*   offered     per correlationId, the rows the logger has sent to the     *)
(*               table in statements that did not fail                     *)
(*   delivered   per correlationId, the forwarding calls the worker took     *)
(*   skipped     the correlationIds a processing found recorded at its     *)
(*               idempotency check                                         *)
(*   lookupFailed  the correlationIds whose idempotency check failed with  *)
(*               a store error                                             *)
(*   readFailed  the processors whose flag a processing has failed to read *)
(*               while the store held it as unhealthy                      *)
(*   purged      a purge has run; afterPurge: a purge ran with no          *)
(*               settlement in flight and no submission has arrived since  *)
(* Specifications                                                          *)
(***************************************************************************)
Init ==
  /\ paymentQueue = <<>>
  /\ forwarders = [w \in Forwarders |-> [pc |-> "recv", req |-> NoReq]]
  /\ lastStatus = 0
  /\ pl \in {[enabled |-> e, ch |-> <<>>, batch |-> <<>>, callers |-> EmptyBag,
               ctxDone |-> FALSE, looping |-> e, flushing |-> "no"] :
               e \in BOOLEAN}
  /\ pgRows = <<>>
  /\ disconnected = {}
  /\ tasks = [t \in TaskIds |-> FreeTask]
  /\ redis = [k \in Keys |-> Nil]
  /\ healthLoop = "default"
  /\ reply = 0
  /\ faults = 0
  /\ summary = NoSummary
  /\ hist = [posts |-> 0,
             accepted |-> [c \in HistIds |-> 0],
             settledBy |-> [c \in HistIds |-> [proc |-> "none", amount |-> 0]],
             paid |-> [c \in HistIds |-> [p \in Procs |-> 0]],
             counted |-> [c \in HistIds |-> [p \in Procs |-> 0]],
             offered |-> [c \in HistIds |-> 0],
             delivered |-> [c \in HistIds |-> 0],
             skipped |-> {},
             lookupFailed |-> {},
             readFailed |-> {},
             purged |-> FALSE, afterPurge |-> FALSE]

\* the worker process starts alone: no logger is part of it
InitWorker == Init /\ ~pl.enabled

\* POST /payments with a method from M and a body from B, at most cap times
Ingress(M, B, cap) == \E m \in M, b \in B : handlePayments(m, b, cap)

\* the admitted requests' handlers going on to LogPayment and the response
LogCalls == \E r \in BagToSet(pl.callers) : handlePaymentsLog(r)

\* the forwarders taking items from the queue
Dispatch == \E w \in Forwarders : Receive(w)

\* the compliance logger's loop; the batch insert may fail
Logger ==
  \/ loopReceive
  \/ loopTick
  \/ \E f \in BOOLEAN : flushExec(f)

\* the steps of the processPayment goroutines, for store failures drawn from F
\* and processor responses from CR
Settle(F, CR) ==
  \/ \E t \in TaskIds, f \in F : processExists(t, f)
  \/ \E t \in TaskIds, f \in F : processGetDefault(t, f)
  \/ \E t \in TaskIds, f \in F : processGetFallback(t, f)
  \/ \E t \in TaskIds, r \in CR : processCall(t, r)
  \/ \E t \in TaskIds, f \in F : processIncr(t, f)
  \/ \E t \in TaskIds, f \in F : processIncrBy(t, f)
  \/ \E t \in TaskIds, f \in F : processSet(t, f)

\* POST /purge-payments
Purge(F) == \E f \in F : handlePurgePayments(f)

\* the health loop, for probe responses drawn from PR
Health(F, PR) == \E p \in Procs, r \in PR, f \in F : checkProcessorHealth(p, r, f)

\* the gateway process alone; the worker it forwards to is its environment
NextGateway ==
  \/ Ingress(Methods, Bodies, MaxPosts)
  \/ Dispatch
  \/ \E w \in Forwarders : forwardPaymentFails(w)
  \/ LogCalls
  \/ Logger

SpecGateway == Init /\ [][NextGateway]_vars

\* the shutdown of the compliance logger
Shutdown ==
  \/ Close
  \/ loopDone

\* the gateway process with a logger that may be closed
NextLogger ==
  \/ Ingress(Methods, ValidBodies, MaxPosts)
  \/ Dispatch
  \/ \E w \in Forwarders : forwardPaymentFails(w)
  \/ LogCalls
  \/ Logger
  \/ Shutdown

SpecLogger == Init /\ [][NextLogger]_vars

\* the worker process alone; its callers are its environment
NextWorker ==
  \/ \E b \in {GarbageBody} \cup ValidBodies : receiveProcessPayment(b)
  \/ Settle(BOOLEAN, CallResponses)
  \/ Purge(BOOLEAN)
  \/ Health(BOOLEAN, ProbeResponses)

SpecWorker == InitWorker /\ [][NextWorker]_vars

\* both processes, with a store, processors and probes that never fail and a
\* worker that is always reached
NextHealthy ==
  \/ Ingress({"POST"}, ValidBodies, MaxRequests)
  \/ Dispatch
  \/ \E w \in Forwarders : forwardPayment(w)
  \/ Settle({FALSE}, SuccessOnly)
  \/ Health({FALSE}, HealthyOnly)

SpecHealthy == InitWorker /\ [][NextHealthy]_vars

\* both processes with the logger, processors and probes that may fail, and a
\* forwarding hop that may fail
Next ==
  \/ Ingress({"POST"}, ValidBodies, MaxRequests)
  \/ Dispatch
  \/ \E w \in Forwarders : forwardPayment(w)
  \/ \E w \in Forwarders : forwardPaymentFails(w)
  \/ LogCalls
  \/ Logger
  \/ Settle({FALSE}, CallResponses)
  \/ Health({FALSE}, ProbeResponses)

Spec == Init /\ [][Next]_vars

\* the worker process alone with a store that never fails
NextReliable ==
  \/ \E b \in ValidBodies : receiveProcessPayment(b)
  \/ Settle({FALSE}, CallResponses)
  \/ Purge({FALSE})
  \/ Health({FALSE}, ProbeResponses)

SpecReliable == InitWorker /\ [][NextReliable]_vars

\* the worker process with summary queries, its store, processors and probes
\* never failing
NextSummary ==
  \/ \E b \in ValidBodies : receiveProcessPayment(b)
  \/ Settle({FALSE}, SuccessOnly)
  \/ Purge({FALSE})
  \/ Health({FALSE}, HealthyOnly)
  \/ summaryGet(FALSE)

SpecSummary == InitWorker /\ [][NextSummary]_vars

\* both processes without the logger, with enough requests to fill the queue
NextIngress ==
  \/ Ingress({"POST"}, {GarbageBody} \cup ValidBodies, MaxPosts)
  \/ Dispatch
  \/ \E w \in Forwarders : forwardPayment(w)
  \/ \E w \in Forwarders : forwardPaymentFails(w)
  \/ Settle({FALSE}, CallResponses)
  \/ Health({FALSE}, ProbeResponses)

SpecIngress == InitWorker /\ [][NextIngress]_vars

\* where the item of correlationId c is: in the queue, in a forwarder's hand,
\* in a goroutine of the worker, or nowhere
Stage(c) ==
  IF \E i \in 1..Len(paymentQueue) : paymentQueue[i].correlationId = c THEN "queued"
  ELSE IF \E w \in Forwarders : forwarders[w].req.correlationId = c THEN "forwarding"
  ELSE IF \E t \in TaskIds : tasks[t].req.correlationId = c THEN "processing"
  ELSE "nowhere"

\* the client that submitted c closes its connection after its 200, while
\* the item is still on its way: the gateway's handler has returned, and
\* neither forwardPayment nor processPayment holds the request's context
\* (both start from context.Background())
clientDisconnect(c) ==
  /\ Stage(c) # "nowhere"
  /\ ~\E d \in disconnected : d.id = c
  /\ disconnected' = disconnected \cup {[id |-> c, at |-> Stage(c)]}
  /\ UNCHANGED <<paymentQueue, forwarders, lastStatus, pl, pgRows, hist>>
  /\ UNCHANGED wkVars

\* the next step of goroutine t of the worker, with a store that answers
TaskStep(t) ==
  \/ processExists(t, FALSE)
  \/ processGetDefault(t, FALSE)
  \/ processGetFallback(t, FALSE)
  \/ \E r \in CallResponses : processCall(t, r)
  \/ processIncr(t, FALSE)
  \/ processIncrBy(t, FALSE)
  \/ processSet(t, FALSE)

\* both processes without the logger, under the Go scheduler: a goroutine
\* that can run does run, and every call a goroutine waits in comes back (the
\* forwarding hop within 1 s, a processor call and a probe within 3 s, a
\* store command within the client's timeouts)
NextFair ==
  \/ Ingress({"POST"}, ValidBodies, MaxRequests)
  \/ Dispatch
  \/ \E w \in Forwarders : forwardPayment(w)
  \/ \E w \in Forwarders : forwardPaymentFails(w)
  \/ Settle({FALSE}, CallResponses)
  \/ Health({FALSE}, ProbeResponses)

Fairness ==
  /\ \A w \in Forwarders :
       /\ WF_vars(Receive(w))
       /\ WF_vars(forwardPayment(w) \/ forwardPaymentFails(w))
  /\ \A t \in TaskIds : WF_vars(TaskStep(t))
  /\ WF_vars(Health({FALSE}, ProbeResponses))

SpecFair == InitWorker /\ [][NextFair]_vars /\ Fairness

\* both processes without the logger, with clients that may go away after
\* their submission was accepted
NextDisconnect ==
  \/ NextFair
  \/ \E c \in CorrIds : clientDisconnect(c)

SpecDisconnect == InitWorker /\ [][NextDisconnect]_vars

\* the worker process alone, with submissions whose correlationId is the name
\* of a summary key; no store failure and no purge
NextKeys ==
  \/ \E b \in KeyBodies : receiveProcessPayment(b)
  \/ Settle({FALSE}, CallResponses)
  \/ Health({FALSE}, ProbeResponses)

SpecKeys == InitWorker /\ [][NextKeys]_vars

(***************************************************************************)
(* Properties                                                              *)
(***************************************************************************)
\* what GET /payments-summary returns for p when its reads meet no write
TotalRequests(p) == GetNumber(redis[RequestsKey(p)])
TotalAmount(p) == GetNumber(redis[AmountKey(p)])

\* the correlationIds the existence check takes as already processed (a key
\* of that name exists, whatever it holds), by settling processor
Recorded(c) == redis[c] # Nil
SettledBy(p) == {c \in IdSpace : Recorded(c) /\ hist.settledBy[c].proc = p}

RECURSIVE SumOfAmounts(_)
SumOfAmounts(S) ==
  IF S = {} THEN 0
  ELSE LET c == CHOOSE x \in S : TRUE
       IN hist.settledBy[c].amount + SumOfAmounts(S \ {c})

NoSettlementInFlight == \A t \in TaskIds : tasks[t].pc = "free"
Quiescent ==
  /\ paymentQueue = <<>>
  /\ \A w \in Forwarders : forwarders[w].pc = "recv"
  /\ NoSettlementInFlight
Increments(c) == hist.counted[c]["default"] + hist.counted[c]["fallback"]
Payments(c) == hist.paid[c]["default"] + hist.paid[c]["fallback"]

\* C1: for each processor the summary's totalRequests is the number of
\* correlationIds recorded as settled by it and totalAmount the sum of their
\* amounts.  Stated for the states with no settlement in flight, the ones
\* every reading of "after any sequence of operations" includes.
C1_SummaryEqualsRecords ==
  NoSettlementInFlight =>
    \A p \in Procs : /\ TotalRequests(p) = Cardinality(SettledBy(p))
                     /\ TotalAmount(p) = SumOfAmounts(SettledBy(p))

\* C2: a correlationId submitted twice ends with one record and one summary
\* increment.  Stated as "never more than one increment", so that only a
\* double count refutes it, not a submission that was dropped.
C2_DuplicateCountedOnce ==
  \A c \in IdSpace :
    (Quiescent /\ hist.accepted[c] = 2 /\ Recorded(c)) => Increments(c) = 1

\* C3: the persisted record set holds at most one record per correlationId:
\* no two rows of the payments table share a correlation_id (the processed
\* markers are keys of the Redis keyspace, one value per key).
C3_OneRecordPerCorrelationId ==
  \A i, j \in 1..Len(pgRows) :
    pgRows[i].correlation_id = pgRows[j].correlation_id => i = j

\* C3 witness: an id accepted twice has been logged and settled, and its row
\* and marker are there
C3_Witness ==
  \E c \in CorrIds :
    /\ hist.offered[c] = 2
    /\ redis[c] = Processed
    /\ \E i \in 1..Len(pgRows) : pgRows[i].correlation_id = c

\* C4: with the queue at its capacity, POST /payments with a body that
\* decodes is answered 503 and leaves the queue as it was; the handler is not
\* held up (it can run as long as requests may still arrive).
C4_FullQueueRejects ==
  [][\A b \in Bodies :
       /\ (Len(paymentQueue) = QueueSize /\ hist.posts < MaxPosts)
            => ENABLED handlePayments("POST", b, MaxPosts)
       /\ (handlePayments("POST", b, MaxPosts) /\ ~Decode(b).err
             /\ Len(paymentQueue) = QueueSize)
            => (lastStatus' = 503 /\ paymentQueue' = paymentQueue)]_vars

\* C4 witness: the overload response was given with the queue full
C4_Witness == lastStatus = 503 /\ Len(paymentQueue) = QueueSize

\* C5 as claimed: a processing that reads the flag of p while it is stored
\* as unhealthy takes p for unhealthy, and a processing calls only the
\* processors it took for healthy.
C5_UnhealthyNeverCalled ==
  [][/\ \A t \in TaskIds :
          (tasks[t].pc = "getDefault" /\ tasks'[t].pc = "getFallback"
             /\ redis[HealthKey("default")] = Num(0))
            => ~tasks'[t].isDefaultHealthy
     /\ \A t \in TaskIds :
          (tasks[t].pc = "getFallback" /\ tasks'[t].pc # "getFallback"
             /\ redis[HealthKey("fallback")] = Num(0))
            => ~tasks'[t].isFallbackHealthy
     /\ \A t \in TaskIds :
          tasks'[t].pc = "call" =>
            IF tasks'[t].proc = "default" THEN tasks'[t].isDefaultHealthy
                                          ELSE tasks'[t].isFallbackHealthy]_vars

\* C5 amended: the same for the readings of a flag that do not fail; a
\* reading that fails takes the processor for healthy.
C5_UnhealthyNotCalledWhenFlagIsRead ==
  [][/\ \A t \in TaskIds :
          (processGetDefault(t, FALSE) /\ redis[HealthKey("default")] = Num(0))
            => ~tasks'[t].isDefaultHealthy
     /\ \A t \in TaskIds :
          (processGetFallback(t, FALSE) /\ redis[HealthKey("fallback")] = Num(0))
            => ~tasks'[t].isFallbackHealthy
     /\ \A t \in TaskIds :
          tasks'[t].pc = "call" =>
            IF tasks'[t].proc = "default" THEN tasks'[t].isDefaultHealthy
                                          ELSE tasks'[t].isFallbackHealthy]_vars

\* C5 witness: default is stored as unhealthy and a submission goes straight
\* to fallback
C5_Witness ==
  \E t \in TaskIds :
    /\ redis[HealthKey("default")] = Num(0)
    /\ tasks[t].pc = "call" /\ tasks[t].proc = "fallback"
    /\ ~tasks[t].isDefaultHealthy
    /\ Payments(tasks[t].req.correlationId) = 0

\* C6: after a purge with no settlement in flight the summary is all zeros
\* and no correlationId that a settlement had recorded before it is still
\* taken as already processed.
C6_PurgeClearsEverything ==
  hist.afterPurge =>
    /\ \A p \in Procs : TotalRequests(p) = 0 /\ TotalAmount(p) = 0
    /\ \A c \in IdSpace : hist.settledBy[c].proc # "none" => ~Recorded(c)

\* C7: with both services healthy and answering with success, every accepted
\* submission ends recorded once under default (stated for the states in
\* which nothing is left to run, and for the correlationIds that are not
\* the name of a key the program itself keeps in the store).
C7_AcceptedIsRecordedUnderDefault ==
  Quiescent =>
    \A c \in IdSpace \ ({HealthKey(p) : p \in Procs} \cup SummaryKeys) :
      hist.accepted[c] > 0 =>
        /\ Recorded(c)
        /\ hist.settledBy[c].proc = "default"
        /\ hist.counted[c]["default"] = 1

\* C8: every accepted request is settled by a processor exactly once (stated
\* for the states in which nothing is left to run).
C8_ProcessedExactlyOnce ==
  Quiescent => \A c \in IdSpace : hist.accepted[c] > 0 => Payments(c) = 1

\* C9: POST /payments with a body that does not decode, or lacks
\* correlationId or amount, is answered 400 and changes nothing.
C9_MalformedRejected ==
  [][\A b \in Bodies :
       (handlePayments("POST", b, MaxPosts)
          /\ (~b.json \/ ~b.hasId \/ ~b.hasAmount))
         => /\ lastStatus' = 400
            /\ UNCHANGED <<paymentQueue, forwarders, pl, pgRows>>
            /\ UNCHANGED wkVars]_vars

\* C10: the processing hop answers 200 to every submission it takes on, at
\* the moment it starts the goroutine, and nothing that happens to the
\* payment afterwards touches that answer.
C10_AlwaysReplies200 ==
  [][/\ \A b \in Bodies :
          (receiveProcessPayment(b) /\ ~Decode(b).err)
            => /\ reply' = 200
               /\ \E t \in TaskIds : /\ tasks[t].pc = "free"
                                     /\ tasks'[t] = NewTask(Decode(b).req)
     /\ hist.posts' = hist.posts => reply' = reply]_vars

\* C10 witness: 200 has been answered and the payment's processing has not
\* made its first step
C10_Witness == reply = 200 /\ \E t \in TaskIds : tasks[t].pc = "exists"

\* C11: the response to POST /payments is a function of the body and of
\* whether the queue is full at that moment, whatever the health flags, the
\* store, the forwarding and the settlements are; and no other step of the
\* system touches a response.
C11_ResponseFromBodyAndQueueOnly ==
  [][/\ \A b \in Bodies :
          handlePayments("POST", b, MaxPosts) =>
            lastStatus' = IF ~b.json THEN 400
                          ELSE IF Len(paymentQueue) < QueueSize THEN 200 ELSE 503
     /\ hist.posts' = hist.posts => lastStatus' = lastStatus]_vars

\* C11 witness: a request was lost on its way to the worker, both processors
\* are flagged unhealthy, and the latest response is the acceptance
C11_Witness ==
  /\ lastStatus = 200
  /\ Quiescent
  /\ \A p \in Procs : redis[HealthKey(p)] = Num(0)
  /\ \E c \in CorrIds : hist.accepted[c] > 0 /\ hist.delivered[c] = 0

\* the items of correlationId c waiting in the queue, and those a forwarder
\* has taken and not yet sent on
InQueue(c) ==
  Cardinality({i \in 1..Len(paymentQueue) : paymentQueue[i].correlationId = c})
InHand(c) ==
  Cardinality({w \in Forwarders : /\ forwarders[w].pc = "forward"
                                  /\ forwarders[w].req.correlationId = c})

\* C12: while the worker cannot be reached, every accepted request is still
\* held by the gateway, in the queue or with the forwarder that took it.
C12_AcceptedStayQueued ==
  \A c \in IdSpace : hist.accepted[c] = InQueue(c) + InHand(c)

\* C13: a forwarder's item leaves its hand in one step, delivered or not,
\* and the hand is then empty; a failed forwarding starts no processing and
\* puts nothing into the queue; the queue changes only by a dequeue or by
\* ingress appending the request it accepted; and of every correlationId no
\* more items are delivered, in hand or queued than were accepted.
C13_FailedForwardDropsItem ==
  /\ [](\A c \in IdSpace :
          hist.delivered[c] + InQueue(c) + InHand(c) <= hist.accepted[c])
  /\ [][/\ \A w \in Forwarders :
             (forwarders[w].pc = "forward" /\ forwarders'[w] # forwarders[w])
               => /\ forwarders'[w] = [pc |-> "recv", req |-> NoReq]
                  /\ paymentQueue' = paymentQueue
        /\ \A w \in Forwarders :
             forwardPaymentFails(w)
               => /\ tasks' = tasks
                  /\ paymentQueue' = paymentQueue
                  /\ hist.delivered' = hist.delivered
        /\ paymentQueue' # paymentQueue
             => \/ Len(paymentQueue) > 0 /\ paymentQueue' = Tail(paymentQueue)
                \/ /\ hist.posts' = hist.posts + 1
                   /\ Len(paymentQueue') = Len(paymentQueue) + 1
                   /\ hist.accepted'[paymentQueue'[Len(paymentQueue')].correlationId]
                        = hist.accepted[paymentQueue'[Len(paymentQueue')].correlationId] + 1
                   /\ SubSeq(paymentQueue', 1, Len(paymentQueue)) = paymentQueue]_vars

\* C13 witness: an accepted request was never delivered and is nowhere in
\* the gateway any more, while another one was delivered
C13_Witness ==
  /\ Quiescent
  /\ \E c \in CorrIds : hist.accepted[c] = 1 /\ hist.delivered[c] = 0
  /\ \E c \in CorrIds : hist.delivered[c] = 1

\* the totals that n payments of amounts from Amounts can add up to
RECURSIVE TotalsOf(_)
TotalsOf(n) ==
  IF n = 0 THEN {0} ELSE {s + a : s \in TotalsOf(n - 1), a \in Amounts}

\* C14: whatever the interleaving of purges and settlements, once no
\* settlement is in flight each processor's request count and amount total
\* come from one and the same set of payments.
C14_PurgeIsAtomic ==
  NoSettlementInFlight =>
    \A p \in Procs : TotalAmount(p) \in TotalsOf(TotalRequests(p))

\* C15: every answered summary query returns the totals the store held at
\* one moment between the query's first read and its last.
C15_SummaryIsASnapshot ==
  summary.pc = Len(SummaryOrder) => summary.resp \in summary.seen

\* C16: a processing that read default as unhealthy and turned to fallback
\* never calls default; after its call to fallback has succeeded it adds 1 to
\* fallback's request total, then the amount to fallback's amount total, then
\* records the correlationId, and it leaves default's totals as they are.
C16_SettledUnderFallback ==
  [][\A t \in TaskIds :
       /\ (tasks'[t].pc = "call" /\ ~tasks'[t].isDefaultHealthy)
            => tasks'[t].proc = "fallback"
       /\ (tasks[t].proc = "fallback" /\ ~tasks[t].isDefaultHealthy
             /\ tasks'[t] # tasks[t])
            => /\ tasks[t].pc = "incr"
                 => /\ tasks'[t].pc = "incrBy"
                    /\ TotalRequests("fallback")' = TotalRequests("fallback") + 1
                    /\ TotalAmount("fallback")' = TotalAmount("fallback")
               /\ tasks[t].pc = "incrBy"
                 => /\ tasks'[t].pc = "set"
                    /\ TotalAmount("fallback")' =
                         TotalAmount("fallback") + tasks[t].req.amount
                    /\ TotalRequests("fallback")' = TotalRequests("fallback")
               /\ tasks[t].pc = "set"
                 => /\ tasks'[t] = FreeTask
                    /\ redis'[tasks[t].req.correlationId] = Processed
               /\ TotalRequests("default")' = TotalRequests("default")
               /\ TotalAmount("default")' = TotalAmount("default")
               /\ hist.paid'[tasks[t].req.correlationId]["default"]
                    = hist.paid[tasks[t].req.correlationId]["default"]]_vars

\* C17: after a completed probe of p, the flag stored for p reads healthy
\* if the probe got a 200 whose body says not failing, and reads unhealthy
\* after every other outcome.
C17_FlagFollowsProbe ==
  [][\A p \in Procs, r \in ProbeResponses :
       checkProcessorHealth(p, r, FALSE) =>
         ReadHealth(redis'[HealthKey(p)], FALSE)
           = (r.err = "none" /\ r.status = 200 /\ r.body = "not failing")]_vars

\* C18: once a processing has passed the duplicate check and read both
\* flags, its first call goes to default if it read default as healthy,
\* else to fallback if it read fallback as healthy; if it read neither as
\* healthy it ends there, no processor having been called and the store as
\* it was.  (A flag reads healthy as ReadHealth says.)
C18_FirstAttemptByHealth ==
  [][\A t \in TaskIds, f \in BOOLEAN :
       /\ processGetDefault(t, f)
            => tasks'[t].isDefaultHealthy
                 = ReadHealth(redis[HealthKey("default")], f)
       /\ processGetFallback(t, f)
            => LET dh == tasks[t].isDefaultHealthy
                   fh == ReadHealth(redis[HealthKey("fallback")], f)
               IN /\ redis' = redis /\ hist.paid' = hist.paid
                  /\ dh => tasks'[t].pc = "call" /\ tasks'[t].proc = "default"
                  /\ (~dh /\ fh)
                       => tasks'[t].pc = "call" /\ tasks'[t].proc = "fallback"
                  /\ (~dh /\ ~fh) => tasks'[t] = FreeTask
       /\ (tasks[t].pc # "call" /\ tasks'[t].pc = "call")
            => tasks[t].pc = "getFallback"]_vars

\* C18 witness: with both flags stored as healthy a processing is about to
\* make its first call, to default
C18_Witness ==
  \E t \in TaskIds :
    /\ tasks[t].pc = "call" /\ tasks[t].proc = "default"
    /\ tasks[t].isDefaultHealthy /\ tasks[t].isFallbackHealthy
    /\ \A p \in Procs : redis[HealthKey(p)] = Num(1)
    /\ faults = 0

\* C19: a processing leaves a call in one of three ways: on to its writes
\* after a success; from default to fallback, after a failure, when it read
\* fallback as healthy; or to its end, after a failure at fallback or at
\* default with fallback not read as healthy, the store and the queue as they
\* were and no other processing started.  It never returns to a call after
\* its writes, and never goes from fallback to default.
C19_AtMostOneCallEach ==
  [][\A t \in TaskIds :
       /\ (tasks[t].pc = "call" /\ tasks'[t] # tasks[t])
            => \/ tasks'[t] = [tasks[t] EXCEPT !.pc = "incr"]
               \/ /\ tasks[t].proc = "default" /\ tasks[t].isFallbackHealthy
                  /\ tasks'[t] = [tasks[t] EXCEPT !.proc = "fallback"]
                  /\ redis' = redis
               \/ /\ tasks[t].proc = "fallback" \/ ~tasks[t].isFallbackHealthy
                  /\ tasks' = [tasks EXCEPT ![t] = FreeTask]
                  /\ redis' = redis /\ paymentQueue' = paymentQueue
                  /\ hist.paid' = hist.paid
       /\ \A r \in CallResponses :
            (processCall(t, r) /\ ~callProcessor(r) /\ tasks[t].proc = "default")
              => (tasks[t].isFallbackHealthy
                    <=> (tasks'[t].pc = "call" /\ tasks'[t].proc = "fallback"))
       /\ (tasks[t].proc = "fallback" /\ tasks'[t].pc # "free")
            => tasks'[t].proc = "fallback"
       /\ tasks'[t].pc = "call" => tasks[t].pc \in {"getFallback", "call"}]_vars

\* C19 witness: the call to default has failed and the processing is at its
\* call to fallback
C19_Witness ==
  \E t \in TaskIds :
    /\ tasks[t].pc = "call" /\ tasks[t].proc = "fallback"
    /\ tasks[t].isDefaultHealthy /\ tasks[t].isFallbackHealthy
    /\ Payments(tasks[t].req.correlationId) = 0

\* C20: a call counts as a success exactly when it comes back without error,
\* with status 200 and the message "payment processed successfully"; every
\* other response leads to one and the same next step; and the call itself,
\* failed or not, writes nothing to the store.
C20_SuccessIsStatusAndMarker ==
  [][\A t \in TaskIds, r \in CallResponses :
       processCall(t, r) =>
         /\ (tasks'[t].pc = "incr")
              <=> (~r.err /\ r.status = 200
                     /\ r.body = "payment processed successfully")
         /\ redis' = redis
         /\ tasks'[t].pc # "incr"
              => /\ hist.paid' = hist.paid
                 /\ \A r2 \in CallResponses :
                      (r2.err \/ r2.status # 200
                         \/ r2.body # "payment processed successfully")
                        => processCall(t, r2)]_vars

\* C20 witness: a call has come back as a success and the processing has not
\* written anything yet
C20_Witness ==
  \E t \in TaskIds :
    /\ tasks[t].pc = "incr"
    /\ hist.paid[tasks[t].req.correlationId][tasks[t].proc] = 1
    /\ redis[RequestsKey(tasks[t].proc)] = Nil
    /\ redis[tasks[t].req.correlationId] = Nil

\* C21: when the marker of a submission's correlationId is in the store at the
\* idempotency check, the check is the last step of that processing: the
\* goroutine ends there, so it reads no health flag and calls no processor,
\* and the store (the totals and the markers) and the payments made are as
\* they were.
C21_RecordedStopsAtCheck ==
  [][\A t \in TaskIds :
       (/\ tasks[t].pc = "exists"
        /\ Recorded(tasks[t].req.correlationId)
        /\ tasks'[t] # tasks[t])
       => /\ tasks'[t] = FreeTask
          /\ redis' = redis
          /\ hist'.paid = hist.paid
          /\ hist'.counted = hist.counted
          /\ [u \in TaskIds \ {t} |-> tasks'[u]] = [u \in TaskIds \ {t} |-> tasks[u]]]_vars

\* a correlationId settled once was accepted again and its second processing
\* ended at the check
C21_Witness ==
  \E c \in CorrIds :
    /\ c \in hist.skipped
    /\ redis[c] = Processed
    /\ hist.accepted[c] = 2
    /\ Payments(c) = 1
    /\ Increments(c) = 1
    /\ \A t \in TaskIds : tasks[t] = FreeTask

\* C22: after a successful call to p, each step of the settlement changes
\* only what it is for: the first adds 1 to p's totalRequests, the second
\* adds the amount to p's totalAmount, the third records the correlationId
\* and ends the processing with no call to the other processor; the other
\* processor's totals, both health flags and the markers of all other
\* correlationIds are as they were before each step.
C22_SuccessChangesOnlyItsOwn ==
  [][\A t \in TaskIds :
       (tasks[t].pc \in {"incr", "incrBy", "set"} /\ tasks'[t] # tasks[t])
       => LET p == tasks[t].proc
              o == CHOOSE x \in Procs : x # tasks[t].proc
              c == tasks[t].req.correlationId
          IN /\ TotalRequests(p)' =
                  TotalRequests(p) + (IF tasks[t].pc = "incr" THEN 1 ELSE 0)
             /\ GetNumber(redis'[AmountKey(p)]) =
                  TotalAmount(p) + (IF tasks[t].pc = "incrBy" THEN tasks[t].req.amount ELSE 0)
             /\ tasks[t].pc = "set"
                  => redis'[c] = Processed /\ tasks'[t] = FreeTask
             /\ tasks[t].pc # "set"
                  => redis'[c] = redis[c] /\ tasks'[t].proc = p
             /\ redis'[RequestsKey(o)] = redis[RequestsKey(o)]
             /\ redis'[AmountKey(o)] = redis[AmountKey(o)]
             /\ \A h \in Procs : redis'[HealthKey(h)] = redis[HealthKey(h)]
             /\ \A d \in IdSpace \ {c} : redis'[d] = redis[d]
             /\ hist'.paid = hist.paid]_vars

\* C23 as stated: the handler of a POST /payments that is admitted appends
\* exactly the admitted submission to the queue and changes nothing else, in
\* its send to the queue and in what it does up to its answer: not the
\* forwarders, not the compliance logger's channel, batch or table, not the
\* worker's state or the store.
C23_AdmissionChangesOnlyQueue ==
  [][/\ \A b \in Bodies :
          (handlePayments("POST", b, MaxPosts) /\ hist'.accepted # hist.accepted)
          => /\ paymentQueue' = Append(paymentQueue, Decode(b).req)
             /\ pl'.enabled = pl.enabled /\ pl'.ch = pl.ch /\ pl'.batch = pl.batch
             /\ UNCHANGED <<forwarders, pgRows>>
             /\ UNCHANGED wkVars
     /\ \A r \in BagToSet(pl.callers) :
          handlePaymentsLog(r)
          => /\ pl'.enabled = pl.enabled /\ pl'.ch = pl.ch /\ pl'.batch = pl.batch
             /\ UNCHANGED <<paymentQueue, forwarders, pgRows>>
             /\ UNCHANGED wkVars]_vars

\* C23: the handler of a POST /payments that is admitted appends exactly the
\* admitted submission to the queue and then, before it answers 200 and when
\* the compliance logger is enabled and its channel has room, to the logger's
\* channel as well (a second send, after the first); the logger's pending
\* batch, its table, the forwarders, the worker's state and the store are
\* unchanged by both.
C23_AdmissionChangesQueueAndLogChannel ==
  [][/\ \A b \in Bodies :
          (handlePayments("POST", b, MaxPosts) /\ hist'.accepted # hist.accepted)
          => /\ paymentQueue' = Append(paymentQueue, Decode(b).req)
             /\ pl'.enabled = pl.enabled /\ pl'.ch = pl.ch /\ pl'.batch = pl.batch
             /\ pl'.callers = IF pl.enabled
                              THEN pl.callers (+) SetToBag({Decode(b).req})
                              ELSE pl.callers
             /\ lastStatus' = IF pl.enabled THEN lastStatus ELSE 200
             /\ UNCHANGED <<forwarders, pgRows>>
             /\ UNCHANGED wkVars
     /\ \A r \in BagToSet(pl.callers) :
          handlePaymentsLog(r)
          => /\ pl'.enabled = pl.enabled
             /\ pl'.batch = pl.batch
             /\ pl'.ch = IF Len(pl.ch) < LogChanSize THEN Append(pl.ch, r) ELSE pl.ch
             /\ lastStatus' = 200
             /\ UNCHANGED <<paymentQueue, forwarders, pgRows>>
             /\ UNCHANGED wkVars]_vars

\* C23 witness: the latest request was admitted with the logger enabled; it
\* is the newest item of the queue and of the logger's channel
C23_Witness ==
  /\ lastStatus = 200
  /\ pl.enabled /\ pl.callers = EmptyBag
  /\ Len(paymentQueue) > 0 /\ Len(pl.ch) > 0
  /\ pl.ch[Len(pl.ch)] = paymentQueue[Len(paymentQueue)]

\* C24: the compliance logger has no part in the main path.  Whatever the
\* logger is (disabled, its channel full, its insert failing), POST /payments
\* is never held up, neither at the queue nor at its call of LogPayment; what
\* it answers, whether it admits and the queue after it are what the body and
\* the queue before it make them, and the call of LogPayment is followed by
\* the answer 200 and changes nothing but the logger; a step of the logger's
\* loop changes nothing of the queue, the forwarders, the responses, the
\* worker or the store; and whether a forwarder or a settlement can take its
\* next step depends on the queue, the forwarders and the goroutines alone.
C24_LoggerOffTheMainPath ==
  /\ [](/\ \A b \in ValidBodies :
            hist.posts < MaxRequests => ENABLED handlePayments("POST", b, MaxRequests)
        /\ \A r \in BagToSet(pl.callers) : ENABLED handlePaymentsLog(r)
        /\ \A w \in Forwarders :
             /\ ENABLED Receive(w)
                  <=> (forwarders[w].pc = "recv" /\ Len(paymentQueue) > 0)
             /\ ENABLED forwardPayment(w)
                  <=> (/\ forwarders[w].pc = "forward"
                       /\ \E t \in TaskIds : tasks[t].pc = "free")
             /\ ENABLED forwardPaymentFails(w) <=> forwarders[w].pc = "forward"
        /\ \A t \in TaskIds :
             /\ ENABLED processExists(t, FALSE) <=> tasks[t].pc = "exists"
             /\ ENABLED processGetDefault(t, FALSE) <=> tasks[t].pc = "getDefault"
             /\ ENABLED processGetFallback(t, FALSE) <=> tasks[t].pc = "getFallback"
             /\ ENABLED processIncr(t, FALSE) <=> tasks[t].pc = "incr"
             /\ ENABLED processIncrBy(t, FALSE) <=> tasks[t].pc = "incrBy"
             /\ ENABLED processSet(t, FALSE) <=> tasks[t].pc = "set"
             /\ \A r \in SuccessOnly :
                  ENABLED processCall(t, r) <=> tasks[t].pc = "call")
  /\ [][/\ \A b \in ValidBodies :
            handlePayments("POST", b, MaxRequests) =>
               /\ lastStatus' = IF Len(paymentQueue) >= QueueSize THEN 503
                                ELSE IF pl.enabled THEN lastStatus ELSE 200
               /\ hist'.accepted[Decode(b).req.correlationId]
                    = hist.accepted[Decode(b).req.correlationId]
                        + (IF Len(paymentQueue) < QueueSize THEN 1 ELSE 0)
               /\ paymentQueue' = IF Len(paymentQueue) < QueueSize
                                  THEN Append(paymentQueue, Decode(b).req)
                                  ELSE paymentQueue
               /\ UNCHANGED <<forwarders, pgRows>>
               /\ UNCHANGED wkVars
        /\ \A r \in BagToSet(pl.callers) :
             handlePaymentsLog(r) =>
               /\ lastStatus' = 200
               /\ UNCHANGED <<paymentQueue, forwarders, pgRows>>
               /\ UNCHANGED wkVars
        /\ (hist.posts' = hist.posts /\ pl'.callers = pl.callers
              /\ (pl' # pl \/ pgRows' # pgRows))
             => /\ UNCHANGED <<paymentQueue, forwarders, lastStatus>>
                /\ UNCHANGED wkVars]_vars

\* C24 witness: two requests were answered 200 and delivered to the worker
\* while the logger, enabled, has kept no trace of either: nothing reached
\* its table in a statement that worked, and at most one is still on its way
C24_Witness ==
  /\ pl.enabled
  /\ lastStatus = 200
  /\ hist.posts = 2
  /\ \E c, d \in CorrIds :
       /\ c # d
       /\ hist.accepted[c] = 1 /\ hist.accepted[d] = 1
       /\ hist.delivered[c] = 1 /\ hist.delivered[d] = 1
  /\ pgRows = <<>>
  /\ Len(pl.ch) + Len(pl.batch) =< 1

\* C25: the queue never holds more than QueueSize items; a POST /payments
\* leaves the items already queued where they are and adds at most one item
\* behind them; and an item leaves the queue only from its front, so items
\* leave in the order in which they were admitted.
C25_BoundedFifoDropNew ==
  [][/\ Len(paymentQueue) =< QueueSize
     /\ Len(paymentQueue') =< QueueSize
     /\ hist.posts' # hist.posts
          => /\ Len(paymentQueue') \in {Len(paymentQueue), Len(paymentQueue) + 1}
             /\ SubSeq(paymentQueue', 1, Len(paymentQueue)) = paymentQueue
     /\ (hist.posts' = hist.posts /\ paymentQueue' # paymentQueue)
          => /\ Len(paymentQueue) > 0
             /\ paymentQueue' = SubSeq(paymentQueue, 2, Len(paymentQueue))
             /\ \E w \in Forwarders :
                  /\ forwarders[w].pc = "recv"
                  /\ forwarders'[w] = [pc |-> "forward", req |-> paymentQueue[1]]]_vars

\* C25 witness: the queue is full of two different items and a forwarder
\* holds a third, admitted before them
C25_Witness ==
  /\ Len(paymentQueue) = QueueSize
  /\ paymentQueue[1] # paymentQueue[QueueSize]
  /\ \E w \in Forwarders :
       /\ forwarders[w].pc = "forward"
       /\ \A i \in 1..QueueSize : forwarders[w].req # paymentQueue[i]

\* C26: an item that leaves the queue goes into the hand of exactly one
\* forwarder, which was waiting, and no other forwarder changes; a forwarder
\* that ends its forwarding call lets go of the item, which goes back nowhere
\* and reaches the worker at most once; never more than NumWorkers forwarding
\* calls are under way; a waiting forwarder can take an item whenever the
\* queue is not empty; and under fair scheduling every correlationId in the
\* queue eventually has no item left in the queue.
C26_EachItemToOneForwarder ==
  /\ [][/\ Cardinality({w \in DOMAIN forwarders : forwarders[w].pc = "forward"})
             =< NumWorkers
        /\ \A w \in Forwarders :
             (forwarders[w].pc = "recv" /\ Len(paymentQueue) > 0)
               => ENABLED Receive(w)
        /\ (hist.posts' = hist.posts /\ paymentQueue' # paymentQueue)
             => /\ Len(paymentQueue) > 0
                /\ paymentQueue' = SubSeq(paymentQueue, 2, Len(paymentQueue))
                /\ Cardinality({w \in Forwarders : forwarders'[w] # forwarders[w]}) = 1
                /\ \E w \in Forwarders :
                     /\ forwarders[w] = [pc |-> "recv", req |-> NoReq]
                     /\ forwarders'[w] = [pc |-> "forward", req |-> paymentQueue[1]]
        /\ \A w \in Forwarders :
             (forwarders[w].pc = "forward" /\ forwarders'[w] # forwarders[w])
               => /\ forwarders'[w] = [pc |-> "recv", req |-> NoReq]
                  /\ paymentQueue' = paymentQueue
                  /\ \A v \in Forwarders \ {w} : forwarders'[v] = forwarders[v]
                  /\ \A c \in IdSpace :
                       hist'.delivered[c] =
                         IF c = forwarders[w].req.correlationId
                         THEN hist.delivered[c] + (IF tasks' # tasks THEN 1 ELSE 0)
                         ELSE hist.delivered[c]]_vars
  /\ \A c \in IdSpace : (InQueue(c) > 0) ~> (InQueue(c) = 0)

\* C26 witness: the two accepted items have left the queue, each in the hand
\* of a forwarder of its own
C26_Witness ==
  /\ paymentQueue = <<>>
  /\ hist.posts = 2
  /\ \A w \in Forwarders : forwarders[w].pc = "forward"
  /\ \E v, w \in Forwarders :
       forwarders[v].req.correlationId # forwarders[w].req.correlationId

\* C27: a health flag changes value only in a step of the health loop that
\* probes that processor; every other step (a request arriving, a step of a
\* settlement, a purge) leaves both flags as they are.
C27_FlagsWrittenOnlyByProbes ==
  [][\A p \in Procs :
       redis'[HealthKey(p)] # redis[HealthKey(p)]
         => /\ healthLoop = p
            /\ healthLoop' # healthLoop
            /\ tasks' = tasks]_vars

\* C28: a processing ends in one of two ways: settled, by the step that
\* records the correlationId after a successful call to default or fallback,
\* or without a settlement and with the store as it was; and under fair
\* scheduling every processing that has begun ends, every forwarding call
\* comes back and the health loop probes each processor again and again.
C28_EveryProcessingEnds ==
  /\ [][\A t \in TaskIds :
          (tasks[t].pc # "free" /\ tasks'[t].pc = "free")
          => \/ /\ tasks[t].pc = "set"
                /\ tasks[t].proc \in Procs
                /\ hist.paid[tasks[t].req.correlationId][tasks[t].proc] > 0
                /\ redis'[tasks[t].req.correlationId] = Processed
             \/ /\ tasks[t].pc \in {"exists", "getFallback", "call"}
                /\ redis' = redis]_vars
  /\ \A t \in TaskIds : (tasks[t].pc # "free") ~> (tasks[t].pc = "free")
  /\ \A w \in Forwarders : (forwarders[w].pc = "forward") ~> (forwarders[w].pc = "recv")
  /\ \A p \in Procs : []<>(healthLoop = p)

\* C28 witness: of two submissions delivered to the worker one was settled by
\* fallback and the other ended with no payment and no record, and no
\* processing is left
C28_Witness ==
  /\ Quiescent
  /\ \E c, d \in CorrIds :
       /\ hist.delivered[c] = 1 /\ hist.accepted[c] = 1
       /\ redis[c] = Nil /\ Payments(c) = 0
       /\ hist.delivered[d] = 1
       /\ redis[d] = Processed /\ hist.settledBy[d].proc = "fallback"

\* C29: when one of the three store writes of a settlement fails, the step
\* changes nothing in the store, makes no payment, and the goroutine goes on
\* to the write that follows it (after the last one it ends); a goroutine
\* that has begun its writes never goes back to a call or to a write it has
\* already tried.
C29_FailedWriteOnlyLogged ==
  [][\A t \in TaskIds :
       /\ (tasks[t].pc \in {"incr", "incrBy", "set"} /\ tasks'[t] # tasks[t])
            => /\ tasks'[t] =
                    IF tasks[t].pc = "incr" THEN [tasks[t] EXCEPT !.pc = "incrBy"]
                    ELSE IF tasks[t].pc = "incrBy" THEN [tasks[t] EXCEPT !.pc = "set"]
                    ELSE FreeTask
               /\ hist'.paid = hist.paid
               /\ faults' # faults => redis' = redis]_vars

\* C29 witness: a payment was made for c, the increment of the request total
\* failed, and the two writes after it were made all the same: the amount
\* total has the amount and c is recorded
C29_Witness ==
  /\ NoSettlementInFlight
  /\ faults = 1
  /\ \E c \in CorrIds, p \in Procs :
       /\ hist.paid[c][p] = 1 /\ Payments(c) = 1
       /\ Increments(c) = 0
       /\ TotalRequests(p) = 0
       /\ TotalAmount(p) = hist.settledBy[c].amount
       /\ hist.settledBy[c].proc = p
       /\ redis[c] = Processed

\* C30: a client that goes away after its submission was accepted changes
\* nothing but its own connection: the queue, the forwarders, the worker and
\* the store are as they were; and afterwards the item is taken from the
\* queue, forwarded to the worker and processed under the same conditions as
\* any other: a waiting forwarder can take the front item, a forwarder holding
\* an item can deliver it whenever the worker can take one, the worker then
\* starts a processing of exactly that item, and a processing that has begun
\* can make its next step.
C30_DisconnectCancelsNothing ==
  [][/\ disconnected' # disconnected
          => /\ UNCHANGED <<paymentQueue, forwarders, lastStatus, pl, pgRows>>
             /\ UNCHANGED wkVars
     /\ \A w \in Forwarders :
          /\ (forwarders[w].pc = "recv" /\ Len(paymentQueue) > 0)
               => ENABLED Receive(w)
          /\ (forwarders[w].pc = "forward" /\ \E t \in TaskIds : tasks[t].pc = "free")
               => ENABLED forwardPayment(w)
          /\ (forwarders[w].pc = "forward" /\ forwarders'[w] # forwarders[w]
                /\ tasks' # tasks)
               => \E t \in TaskIds :
                    /\ tasks[t] = FreeTask
                    /\ tasks'[t] = NewTask(forwarders[w].req)
     /\ \A t \in TaskIds : tasks[t].pc # "free" => ENABLED TaskStep(t)]_vars

\* C30 witness: the client of c went away while c's item was in the queue;
\* the item was then delivered to the worker, paid and recorded
C30_Witness ==
  \E c \in CorrIds :
    /\ [id |-> c, at |-> "queued"] \in disconnected
    /\ hist.accepted[c] = 1
    /\ hist.delivered[c] = 1
    /\ Payments(c) = 1
    /\ redis[c] = Processed

\* C31 as stated: a processing that reads a flag while its key is absent
\* takes the processor for unhealthy, and with both taken for unhealthy it
\* ends with no payment call and nothing written.
C31_AbsentFlagMeansUnhealthy ==
  [][\A t \in TaskIds :
       /\ (tasks[t].pc = "getDefault" /\ tasks'[t] # tasks[t]
             /\ redis[HealthKey("default")] = Nil)
            => ~tasks'[t].isDefaultHealthy
       /\ (tasks[t].pc = "getFallback" /\ tasks'[t] # tasks[t]
             /\ redis[HealthKey("fallback")] = Nil)
            => /\ tasks'[t].pc # "call" \/ tasks'[t].proc # "fallback"
               /\ ~tasks[t].isDefaultHealthy
                    => /\ tasks'[t] = FreeTask
                       /\ redis' = redis
                       /\ hist'.paid = hist.paid]_vars

\* C31: the same for the readings that the store answers; a reading that
\* fails with a store error takes the processor for healthy even while its
\* key is absent.
C31_AbsentFlagReadMeansUnhealthy ==
  [][\A t \in TaskIds :
       /\ (tasks[t].pc = "getDefault" /\ tasks'[t] # tasks[t]
             /\ redis[HealthKey("default")] = Nil /\ faults' = faults)
            => ~tasks'[t].isDefaultHealthy
       /\ (tasks[t].pc = "getFallback" /\ tasks'[t] # tasks[t]
             /\ redis[HealthKey("fallback")] = Nil /\ faults' = faults)
            => /\ tasks'[t].pc # "call" \/ tasks'[t].proc # "fallback"
               /\ ~tasks[t].isDefaultHealthy
                    => /\ tasks'[t] = FreeTask
                       /\ redis' = redis
                       /\ hist'.paid = hist.paid]_vars

\* C31 witness: no probe has stored anything, no store command has failed,
\* and a submission that was accepted has been processed to its end with no
\* payment and no record
C31_Witness ==
  /\ \A p \in Procs : redis[HealthKey(p)] = Nil
  /\ faults = 0
  /\ NoSettlementInFlight
  /\ \E c \in CorrIds :
       hist.accepted[c] = 1 /\ Payments(c) = 0 /\ redis[c] = Nil

\* the successful payment calls made to p so far, over all correlationIds
RECURSIVE PaidTo(_, _)
PaidTo(p, S) ==
  IF S = {} THEN 0
  ELSE LET c == CHOOSE x \in S : TRUE
       IN hist.paid[c][p] + PaidTo(p, S \ {c})

\* C32: a goroutine comes to its three writes only by a call of its own that
\* succeeded, and it keeps the processor of that call through the writes; a
\* request total or an amount total grows, and a marker is written, only in a
\* write step of such a goroutine, for its processor and its correlationId;
\* so the request total of p never exceeds the successful calls made to p.
C32_WritesOnlyAfterSuccess ==
  [][/\ \A t \in TaskIds :
          /\ (tasks'[t].pc = "incr" /\ tasks[t].pc # "incr")
               => /\ tasks[t].pc = "call"
                  /\ tasks'[t].proc = tasks[t].proc
                  /\ tasks'[t].req = tasks[t].req
                  /\ hist'.paid[tasks[t].req.correlationId][tasks[t].proc]
                       = hist.paid[tasks[t].req.correlationId][tasks[t].proc] + 1
          /\ (tasks'[t].pc \in {"incrBy", "set"} /\ tasks'[t] # tasks[t])
               => /\ tasks[t].pc = (IF tasks'[t].pc = "incrBy" THEN "incr" ELSE "incrBy")
                  /\ tasks'[t].proc = tasks[t].proc
                  /\ tasks'[t].req = tasks[t].req
     /\ \A p \in Procs :
          /\ GetNumber(redis'[RequestsKey(p)]) > TotalRequests(p)
               => \E t \in TaskIds :
                    tasks[t].pc = "incr" /\ tasks[t].proc = p /\ tasks'[t].pc = "incrBy"
          /\ GetNumber(redis'[AmountKey(p)]) > TotalAmount(p)
               => \E t \in TaskIds :
                    tasks[t].pc = "incrBy" /\ tasks[t].proc = p /\ tasks'[t].pc = "set"
          /\ \A c \in HistIds : hist'.paid[c][p] >= hist.paid[c][p]
          /\ GetNumber(redis'[RequestsKey(p)]) # TotalRequests(p)
               => GetNumber(redis'[RequestsKey(p)]) =< PaidTo(p, HistIds)'
     /\ \A c \in HistIds :
          (redis'[c] = Processed /\ redis[c] # Processed)
            => \E t \in TaskIds :
                 /\ tasks[t].pc = "set" /\ tasks[t].req.correlationId = c
                 /\ tasks'[t] = FreeTask
                 /\ hist.paid[c][tasks[t].proc] > 0]_vars

\* C32 witness: of two submissions processed to the end, one was paid at a
\* processor and is counted there and recorded, the other was paid nowhere
\* and has left no trace
C32_Witness ==
  /\ NoSettlementInFlight
  /\ \E c, d \in CorrIds, p \in Procs :
       /\ c # d
       /\ hist.paid[c][p] = 1 /\ redis[c] = Processed /\ hist.counted[c][p] = 1
       /\ TotalRequests(p) = 1 /\ PaidTo(p, IdSpace) = 1
       /\ \A q \in Procs \ {p} : TotalRequests(q) = 0
       /\ hist.accepted[d] = 1 /\ Payments(d) = 0 /\ redis[d] = Nil

\* C33: a processing reads each flag once, before its first call, and keeps
\* what it read: a probe changes no goroutine; a goroutine that has made its
\* choice never returns to a read and never changes what it read; after a
\* failed call to default it turns to fallback exactly when it had read
\* fallback as healthy, whatever the store says by then; and its call can be
\* made whatever the store says about the processor by then.
C33_RoutesOnItsSnapshot ==
  [][/\ healthLoop' # healthLoop => tasks' = tasks
     /\ \A t \in TaskIds :
          /\ (tasks[t].pc \in {"call", "incr", "incrBy", "set"} /\ tasks'[t].pc # "free")
               => /\ tasks'[t].pc \in {"call", "incr", "incrBy", "set"}
                  /\ tasks'[t].isDefaultHealthy = tasks[t].isDefaultHealthy
                  /\ tasks'[t].isFallbackHealthy = tasks[t].isFallbackHealthy
          /\ (tasks[t].pc = "call" /\ tasks'[t] # tasks[t] /\ tasks'[t].pc # "incr")
               => tasks'[t] =
                    IF tasks[t].proc = "default" /\ tasks[t].isFallbackHealthy
                    THEN [tasks[t] EXCEPT !.proc = "fallback"]
                    ELSE FreeTask
          /\ tasks[t].pc = "call"
               => \A r \in SuccessOnly : ENABLED processCall(t, r)]_vars

\* C33 witness: a processing read both flags as healthy and its call to
\* default failed; a probe has since stored fallback as unhealthy, and the
\* processing stands before its call to fallback
C33_Witness ==
  \E t \in TaskIds :
    /\ tasks[t].pc = "call" /\ tasks[t].proc = "fallback"
    /\ tasks[t].isDefaultHealthy /\ tasks[t].isFallbackHealthy
    /\ redis[HealthKey("fallback")] = Num(0)
    /\ redis[HealthKey("default")] = Num(1)

\* C34: when the lookup of the correlationId fails with a store error, that
\* step ends the processing: the goroutine is gone without having read a
\* flag or called a processor, and the store, the payments made and the
\* other goroutines are as they were.
C34_FailedLookupDrops ==
  [][\A t \in TaskIds :
       (tasks[t].pc = "exists" /\ tasks'[t] # tasks[t] /\ faults' # faults)
       => /\ tasks'[t] = FreeTask
          /\ redis' = redis
          /\ hist'.paid = hist.paid
          /\ hist'.counted = hist.counted
          /\ healthLoop' = healthLoop
          /\ [u \in TaskIds \ {t} |-> tasks'[u]] = [u \in TaskIds \ {t} |-> tasks[u]]]_vars

\* C34 witness: both processors are stored as healthy, the lookup of an
\* accepted submission has failed, and the submission is gone with no
\* payment and no record
C34_Witness ==
  /\ NoSettlementInFlight
  /\ \A p \in Procs : redis[HealthKey(p)] = Num(1)
  /\ \E c \in CorrIds :
       /\ c \in hist.lookupFailed
       /\ hist.accepted[c] = 1
       /\ Payments(c) = 0
       /\ redis[c] = Nil

\* C35: a read of a processor's flag that ends in an error other than the
\* key being absent (the command fails, or the value stored is no boolean)
\* makes the processing take that processor for healthy, whatever is stored
\* for it: after such a read of default the first call goes to default;
\* after such a read of fallback the processing has a call to make, to
\* fallback at once when it had taken default for unhealthy, else to default
\* with fallback as the next in line.
C35_FailedReadMeansHealthy ==
  [][\A t \in TaskIds :
       /\ (/\ tasks[t].pc = "getDefault" /\ tasks'[t] # tasks[t]
           /\ \/ faults' # faults
              \/ redis[HealthKey("default")] \notin {Nil, Num(0), Num(1)})
            => /\ tasks'[t].pc = "getFallback"
               /\ tasks'[t].isDefaultHealthy
       /\ (/\ tasks[t].pc = "getFallback" /\ tasks'[t] # tasks[t]
           /\ \/ faults' # faults
              \/ redis[HealthKey("fallback")] \notin {Nil, Num(0), Num(1)})
            => /\ tasks'[t].pc = "call"
               /\ tasks'[t].isFallbackHealthy
               /\ tasks'[t].proc =
                    IF tasks[t].isDefaultHealthy THEN "default" ELSE "fallback"
       /\ (tasks[t].pc = "getFallback" /\ tasks'[t] # tasks[t]
             /\ tasks[t].isDefaultHealthy)
            => tasks'[t].pc = "call" /\ tasks'[t].proc = "default"]_vars

\* C35 witness: the processing of the one submission received failed to read
\* the flag of default while it was stored as unhealthy, called default and
\* was paid there
C35_Witness ==
  /\ redis[HealthKey("default")] = Num(0)
  /\ "default" \in hist.readFailed
  /\ hist.posts = 1
  /\ \E c \in CorrIds :
       /\ hist.accepted[c] = 1
       /\ hist.paid[c]["default"] = 1

\* the correlationIds that carry the processed marker written by a
\* settlement at p, among all the correlationIds submitted
MarkedBy(p) == {c \in HistIds : Recorded(c) /\ hist.settledBy[c].proc = p}

\* C36: with no failed store write and no purge, every correlationId that
\* carries the processed marker is already in the totals of the processor
\* that settled it: totalRequests of p is at least the number of
\* correlationIds marked by a settlement at p, and totalAmount of p at least
\* the sum of their amounts (the marker is the last of the three writes).
C36_MarkedImpliesCounted ==
  \A p \in Procs :
    /\ TotalRequests(p) >= Cardinality(MarkedBy(p))
    /\ TotalAmount(p) >= SumOfAmounts(MarkedBy(p))

\* C37: no correlationId is counted under both processors: whatever the
\* interleaving of duplicate submissions and probes, a correlationId that has
\* added to default's totals has added nothing to fallback's.
C37_CountedUnderOneProcessor ==
  \A c \in IdSpace :
    ~(hist.counted[c]["default"] > 0 /\ hist.counted[c]["fallback"] > 0)

\* C38: the pending batch never holds more than batchSize items.  A step of
\* the loop that takes a request from the channel appends it, and when the
\* batch has then reached batchSize the loop is in flush and takes nothing
\* more before the flush has ended; a tick with a pending batch and the
\* shutdown step with a pending batch go into flush as well, and the loop
\* returns at shutdown only with an empty batch.  A flush ends with the batch
\* empty and the table either with the batch's rows inserted or, when the
\* insert failed, as it was: the items of a failed batch are gone.  The
\* table changes in no other step.
C38_BatchBoundedAndFlushed ==
  [][/\ Len(pl'.batch) =< batchSize
     /\ Len(pl'.batch) >= batchSize => pl'.flushing # "no"
     /\ (Len(pl'.ch) < Len(pl.ch))
          => /\ pl.flushing = "no"
             /\ pl'.batch = Append(pl.batch, Head(pl.ch))
             /\ pgRows' = pgRows
     /\ (pl.flushing = "no" /\ pl'.flushing # "no") => Len(pl'.batch) > 0
     /\ (pl.flushing # "no" /\ pl'.flushing # pl.flushing)
          => /\ pl'.flushing = "no"
             /\ pl'.batch = <<>>
             /\ pgRows' \in {pgRows, InsertOnConflictDoNothing(pgRows, pl.batch)}
     /\ (pl.flushing # "no" /\ pl'.flushing = pl.flushing) => pl'.batch = pl.batch
     /\ (pl.looping /\ ~pl'.looping)
          => /\ pl.ctxDone
             /\ pl'.batch = <<>>
             /\ pgRows' \in {pgRows, InsertOnConflictDoNothing(pgRows, pl.batch)}
     /\ pgRows' # pgRows => (pl.flushing # "no" /\ pl'.batch = <<>>)
     /\ (pl.looping /\ pl.ctxDone /\ pl.flushing = "no" /\ pl.enabled)
          => ENABLED loopDone
     /\ (pl.looping /\ pl.flushing = "no" /\ pl.enabled /\ Len(pl.batch) > 0)
          => ENABLED (loopTick /\ pl'.flushing = "loop")
    ]_vars

\* three submissions were admitted; the loop has taken what was logged from
\* the channel, every insert has failed, and after the flush at shutdown the
\* batch is empty and the table has none of them
C38_Witness ==
  /\ pl.enabled /\ ~pl.looping /\ pl.callers = EmptyBag
  /\ pl.batch = <<>> /\ pl.ch = <<>>
  /\ pgRows = <<>>
  /\ hist.posts = 3
  /\ hist.accepted[IdPool[1]] = 2 /\ hist.accepted[IdPool[2]] = 1
  /\ \A c \in IdSpace : hist.offered[c] = 0

====
